---- MODULE Spec2Model ----
(***************************************************************************)
(* A model of the transaction engine of BTC-openlab (src/transazioni):     *)
(* the UTXO collector and selector (utxo_manager.py), the Transaction      *)
(* object and the fee-convergence loop of the transaction builder          *)
(* (transaction_builder.py), the Electrum client (electrum_client.py) and  *)
(* the send pipeline (main.py).                                            *)
(*                                                                         *)
(* Amounts are satoshi (naturals).  A fee rate is the float fee_rate of    *)
(* the source, modelled exactly as a rational <<num, den>>, so that        *)
(* math.ceil(x * fee_rate) is CeilMul(x, rate).  Byte strings are          *)
(* modelled by their family and their length, which is all that the size  *)
(* and fee computations read.                                              *)
(***************************************************************************)
EXTENDS Integers, Sequences, FiniteSets, TLC

VARIABLES
    \* ---- UTXOManager.select_utxos / calculate_optimal_fee
    utxos,          \* the caller's UTXO list: a sequence of amounts
    target_amount,  \* satoshi to send
    fee_rate,       \* <<num, den>>: sat/vB
    input_weight,   \* per-input vsize estimate
    sorted_utxos,   \* the sorted copy: indexes into utxos
    selected,       \* the list being built: indexes into utxos
    total_input,    \* running sum of the selected amounts
    sel_pc,         \* position in select_utxos
    sel_err,        \* the figures of the insufficient-funds error raised
    opt,            \* the tuple calculate_optimal_fee returned
    \* ---- TransactionBuilder.build_transaction
    b_utxos,        \* the UTXOs to spend: [amount, spk], spk the previous
                    \* scriptPubKey the oracle reports for the UTXO
    b_outputs,      \* the given outputs: [value, spk]
    wallet,         \* the wallet descriptor
    fee,            \* the loop's fee variable
    passes,         \* passes of the loop completed
    pass_fee,       \* the fee the last pass started with
    new_fee,        \* the fee the last pass computed
    change_amount,  \* \
    has_change,     \*  > the locals of the last pass
    tx,             \* /
    sig_memo,       \* fee at the start of a pass -> DER length signed there
    b_pc,           \* position in build_transaction
    ret,            \* the tuple build_transaction returned
    \* ---- the requests made of the ElectrumClient, in order
    rpcs,           \* sequence of [method, arg]
    \* ---- a Transaction object (transaction_builder.py 46-129)
    t_tx,           \* [inputs, outputs, witnesses], as in the sizes below
    t_prev,         \* per input: the (utxo, prevout) pair it was added for
    t_owner,        \* per witness entry: the outpoint it was made for
    \* ---- ElectrumClient (electrum_client.py)
    request_id,     \* self._request_id
    use_tls,        \* self.use_tls
    c_pc,           \* position in request / _execute_request
    c_call,         \* request() calls started so far
    c_attempt,      \* the loop variable of request
    c_payload,      \* the payload of the call: [id, method]
    c_open,         \* sockets open
    c_sent,         \* what went over the wire: [call, id, method]
    c_hist,         \* how each attempt of the call ended: [end, resp]
    c_out,          \* what the call gave its caller
    \* ---- main (main.py)
    m_pc,           \* position in main
    m_net,          \* the network of the wallet's address
    m_utxos,        \* collect_utxos_for_wallet's list: [amount, spk]
    m_queried,      \* the scripts collect_utxos_for_wallet asked about
    m_dest,         \* the destination address typed in
    m_dest_spk,     \* dest_scriptpubkey
    m_message,      \* len(message_text.encode('utf-8')), 0 without message
    m_op_return,    \* op_return_script, or None
    m_confirm,      \* the answer to "Inviare la transazione?"
    m_exit,         \* how main ended
    \* ---- get_script_type_from_spk called on its own (script_types.py)
    k_spk,          \* the script given
    k_out,          \* the name returned, "unrecognized" for the ValueError
    \* ---- a multisig wallet from generation to signature
    \*      (indirizzi/p2sh.py, wallet_utils.py, script_types.py)
    g_pc,           \* position: start, descriptor, loaded, signed, ...
    g_desc,         \* the wallet JSON
    g_wallet,       \* the Wallet load_wallet returned
    g_sig           \* what signing an input gave: a scriptSig or an error

selVars == <<utxos, target_amount, input_weight, sorted_utxos,
             selected, total_input, sel_pc, sel_err, opt>>

bldVars == <<b_utxos, b_outputs, wallet, fee, passes, pass_fee, new_fee,
             change_amount, has_change, tx, sig_memo, b_pc, ret>>

txVars == <<t_tx, t_prev, t_owner>>

cliVars == <<request_id, use_tls, c_pc, c_call, c_attempt, c_payload, c_open,
             c_sent, c_hist, c_out>>

mainVars == <<m_pc, m_net, m_utxos, m_queried, m_dest, m_dest_spk,
              m_message, m_op_return, m_confirm, m_exit>>

fnVars == <<k_spk, k_out, g_pc, g_desc, g_wallet, g_sig>>

extVars == <<txVars, cliVars, mainVars, fnVars>>

vars == <<fee_rate, selVars, bldVars, rpcs, extVars>>

(***************************************************************************)
(* config.py                                                               *)
(***************************************************************************)
DUST_LIMIT == 546
INPUT_WEIGHT_P2PKH == 148
INPUT_WEIGHT_P2WPKH == 68
INPUT_WEIGHT_P2PK == 114
INPUT_WEIGHT_P2SH == 520

(***************************************************************************)
(* Bounds of the model and the input sets Init draws from.                 *)
(***************************************************************************)
MaxUtxos == 3

UtxoAmounts == {300, 600, 1000, 5000}
Targets == {100, 500, 1000, 6000}
\* fee rates 0.5, 1.0 and 2.5 sat/vB
Rates == {<<1, 2>>, <<1, 1>>, <<5, 2>>}
\* the input weights main picks for the wallet types (main.py 91-98)
InputWeights == {INPUT_WEIGHT_P2SH, INPUT_WEIGHT_P2WPKH, INPUT_WEIGHT_P2PK,
                 INPUT_WEIGHT_P2PKH}

None == [none |-> TRUE]

(***************************************************************************)
(* Helpers                                                                 *)
(***************************************************************************)
\* math.ceil(x * rate) for an integer x and a positive rational rate
CeilMul(x, rate) == (x * rate[1] + rate[2] - 1) \div rate[2]

RECURSIVE SumSeq(_)
\* sum(...) over a sequence of integers
SumSeq(s) == IF s = <<>> THEN 0 ELSE Head(s) + SumSeq(Tail(s))

\* amounts of the UTXOs that a list of indexes names
AmountsOf(idx) == [i \in 1..Len(idx) |-> utxos[idx[i]]]

SeqsUpTo(S, n) == UNION {[1..k -> S] : k \in 0..n}

(***************************************************************************)
(* sorted(utxos, key=amount, reverse=True): Python's sort is stable, and   *)
(* with reverse=True elements of equal key keep their original order.      *)
(* Insertion of index i (in list order) after every element whose amount   *)
(* is >= its own.                                                          *)
(***************************************************************************)
RECURSIVE InsertDesc(_, _, _)
InsertDesc(amts, s, i) ==
    IF s = <<>> THEN <<i>>
    ELSE IF amts[Head(s)] >= amts[i]
         THEN <<Head(s)>> \o InsertDesc(amts, Tail(s), i)
         ELSE <<i>> \o s

RECURSIVE SortPrefix(_, _)
SortPrefix(amts, n) ==
    IF n = 0 THEN <<>> ELSE InsertDesc(amts, SortPrefix(amts, n - 1), n)

\* the order an ascending sort would give: the mutation of SortedDesc
SortedAsc(amts) ==
    LET d == SortPrefix(amts, Len(amts))
    IN  [i \in 1..Len(d) |-> d[Len(d) + 1 - i]]

SortedDesc(amts) == SortPrefix(amts, Len(amts))

(***************************************************************************)
(* select_utxos.estimate_fee (utxo_manager.py 104-107), n_outputs = 2      *)
(***************************************************************************)
\* an estimate that forgets the input count: the mutation of estimate_fee
estimate_fee_flat(n_inputs) ==
    CeilMul(10 + 1 * input_weight + 2 * 34, fee_rate)

estimate_fee(n_inputs) ==
    CeilMul(10 + n_inputs * input_weight + 2 * 34, fee_rate)

\* the builder's variables while only the selector runs
BldIdle ==
    /\ b_utxos = <<>>
    /\ b_outputs = <<>>
    /\ wallet = None
    /\ fee = 0
    /\ passes = 0
    /\ pass_fee = 0
    /\ new_fee = 0
    /\ change_amount = 0
    /\ has_change = FALSE
    /\ tx = None
    /\ sig_memo = <<>>
    /\ b_pc = "idle"
    /\ ret = None

\* no Transaction object under construction
TxIdle ==
    /\ t_tx = None
    /\ t_prev = <<>>
    /\ t_owner = <<>>

\* no ElectrumClient
CliIdle ==
    /\ request_id = 0
    /\ use_tls = FALSE
    /\ c_pc = "none"
    /\ c_call = 0
    /\ c_attempt = 0
    /\ c_payload = None
    /\ c_open = 0
    /\ c_sent = <<>>
    /\ c_hist = <<>>
    /\ c_out = None

\* main is not running
MainIdle ==
    /\ m_pc = "none"
    /\ m_net = "none"
    /\ m_utxos = <<>>
    /\ m_queried = <<>>
    /\ m_dest = None
    /\ m_dest_spk = None
    /\ m_message = 0
    /\ m_op_return = None
    /\ m_confirm = ""
    /\ m_exit = ""

\* no script is being classified and no multisig wallet made
FnIdle ==
    /\ k_spk = None
    /\ k_out = ""
    /\ g_pc = "none"
    /\ g_desc = None
    /\ g_wallet = None
    /\ g_sig = None

(***************************************************************************)
(* Init: the calls a caller can make.  main.py passes a positive amount    *)
(* (line 60) and a positive fee rate (line 67).                            *)
(***************************************************************************)
SelInit ==
    /\ utxos \in SeqsUpTo(UtxoAmounts, MaxUtxos)
    /\ target_amount \in Targets
    /\ fee_rate \in Rates
    /\ input_weight \in InputWeights
    /\ sorted_utxos = <<>>
    /\ selected = <<>>
    /\ total_input = 0
    /\ sel_pc = "call"
    /\ sel_err = None
    /\ opt = None
    /\ BldIdle
    /\ rpcs = <<>>
    /\ TxIdle
    /\ CliIdle
    /\ MainIdle
    /\ FnIdle

(***************************************************************************)
(* select_utxos, lines 98-101: the sorted copy and the empty selection     *)
(***************************************************************************)
SelectBegin ==
    /\ sel_pc = "call"
    /\ sorted_utxos' = SortedDesc(utxos)
    /\ selected' = <<>>
    /\ total_input' = 0
    /\ sel_pc' = "loop"
    /\ UNCHANGED <<bldVars, rpcs, extVars, utxos, target_amount, fee_rate, input_weight, sel_err, opt>>

\* a test that forgets the fee: the mutation of Covered
CoveredNoFee(total, n) == total >= target_amount

\* the test of line 117
Covered(total, n) == total >= target_amount + estimate_fee(n)

(***************************************************************************)
(* select_utxos, lines 109-118: one iteration of the for loop              *)
(***************************************************************************)
SelectIter ==
    /\ sel_pc = "loop"
    /\ Len(selected) < Len(sorted_utxos)
    /\ LET utxo == sorted_utxos[Len(selected) + 1]
           sel == Append(selected, utxo)
           tot == total_input + utxos[utxo]
       IN  /\ selected' = sel
           /\ total_input' = tot
           /\ sel_pc' = IF Covered(tot, Len(sel)) THEN "returned" ELSE "loop"
    /\ UNCHANGED <<bldVars, rpcs, extVars, utxos, target_amount, fee_rate, input_weight, sorted_utxos,
                   sel_err, opt>>

\* line 122 and 125: target + estimate for all the UTXOs
RequiredAll == target_amount + estimate_fee(Len(utxos))

(***************************************************************************)
(* select_utxos, lines 120-126: the loop ran out of UTXOs                  *)
(***************************************************************************)
SelectRaise ==
    /\ sel_pc = "loop"
    /\ Len(selected) = Len(sorted_utxos)
    /\ sel_err' = [available |-> SumSeq(utxos), required |-> RequiredAll]
    /\ sel_pc' = "raised"
    /\ UNCHANGED <<bldVars, rpcs, extVars, utxos, target_amount, fee_rate, input_weight, sorted_utxos,
                   selected, total_input, opt>>

(***************************************************************************)
(* calculate_optimal_fee (utxo_manager.py 128-150) on a list of amounts    *)
(***************************************************************************)
calculate_optimal_fee(amounts) ==
    LET total == SumSeq(amounts)
        n_inputs == Len(amounts)
        fee_with_change == CeilMul(10 + n_inputs * input_weight + 2 * 34, fee_rate)
        change_amt == total - target_amount - fee_with_change
        fee_no_change == CeilMul(10 + n_inputs * input_weight + 1 * 34, fee_rate)
        max0 == IF change_amt > 0 THEN change_amt ELSE 0
    IN  IF change_amt < DUST_LIMIT
        THEN [fee |-> fee_no_change + max0, change |-> 0, has_change |-> FALSE,
              total |-> total, n |-> n_inputs]
        ELSE [fee |-> fee_with_change, change |-> change_amt,
              has_change |-> TRUE, total |-> total, n |-> n_inputs]

\* called on the list select_utxos returned
OptimalFeeOfSelected ==
    /\ sel_pc = "returned"
    /\ opt' = calculate_optimal_fee(AmountsOf(selected))
    /\ sel_pc' = "fee_done"
    /\ UNCHANGED <<bldVars, rpcs, extVars, utxos, target_amount, fee_rate, input_weight, sorted_utxos,
                   selected, total_input, sel_err>>

\* called on the caller's whole list, without a selection
OptimalFeeOfAll ==
    /\ sel_pc = "call"
    /\ opt' = calculate_optimal_fee(utxos)
    /\ sel_pc' = "fee_done"
    /\ UNCHANGED <<bldVars, rpcs, extVars, utxos, target_amount, fee_rate, input_weight, sorted_utxos,
                   selected, total_input, sel_err>>

SelNext ==
    \/ SelectBegin
    \/ SelectIter
    \/ SelectRaise
    \/ OptimalFeeOfSelected
    \/ OptimalFeeOfAll

SelSpec == SelInit /\ [][SelNext]_vars

(***************************************************************************)
(* Properties of the selector                                              *)
(***************************************************************************)
SelReturned == sel_pc = "returned" \/ (sel_pc = "fee_done" /\ selected # <<>>)

RECURSIVE SumSet(_)
\* sum of the amounts of a set of UTXO indexes
SumSet(S) ==
    IF S = {} THEN 0
    ELSE LET i == CHOOSE x \in S : TRUE IN utxos[i] + SumSet(S \ {i})

\* a sum covers target + ceil((10 + n*w + 2*34) * rate): stated without the
\* ceiling, since for integers  s >= t + ceil(x)  iff  s - t >= x
CoversFor(sum, n) ==
    (sum - target_amount) * fee_rate[2] >=
        (10 + n * input_weight + 2 * 34) * fee_rate[1]

\* j is among the first k of the amount-descending order (ties in list order)
RankOf(j) ==
    Cardinality({i \in DOMAIN utxos :
                    utxos[i] > utxos[j] \/ (utxos[i] = utxos[j] /\ i <= j)})

FirstOfOrder(k) == {j \in DOMAIN utxos : RankOf(j) <= k}

\* C7: on success select_utxos returns exactly the first k UTXOs of the
\* amount-descending order, in that order, k >= 1 being the smallest count
\* whose prefix sum covers target + ceil((10 + k*w + 2*34) * fee_rate).
C7_GreedyPrefix ==
    SelReturned =>
        LET k == Len(selected)
        IN  /\ k >= 1
            /\ \A i \in 1..k : RankOf(selected[i]) = i
            /\ total_input = SumSet(FirstOfOrder(k))
            /\ CoversFor(SumSet(FirstOfOrder(k)), k)
            /\ \A j \in 1..(k - 1) : ~CoversFor(SumSet(FirstOfOrder(j)), j)

\* a selection of two of three UTXOs: the first did not cover, the second did
C7_Witness ==
    /\ sel_pc = "returned"
    /\ Len(selected) = 2
    /\ Len(utxos) = 3
    /\ utxos[1] < utxos[3]

\* C8: the returned set is a minimal covering subset (no subset of the
\* available UTXOs with fewer elements covers target + the estimate for its
\* own size), and select_utxos raises only if no subset at all covers.
C8_MinimalCover ==
    /\ SelReturned =>
          \A S \in SUBSET (DOMAIN utxos) :
              Cardinality(S) < Len(selected) => ~CoversFor(SumSet(S), Cardinality(S))
    /\ sel_pc = "raised" =>
          \A S \in SUBSET (DOMAIN utxos) : ~CoversFor(SumSet(S), Cardinality(S))

\* two UTXOs were needed although the list holds three of different amounts
C8_Witness ==
    /\ sel_pc = "returned"
    /\ Len(selected) = 2
    /\ Len(utxos) = 3
    /\ utxos[1] < utxos[2]
    /\ utxos[2] < utxos[3]

\* C9 (state part): select_utxos raises exactly when no prefix of the
\* descending order covers (the empty list included), the error reports the
\* sum of all amounts and target + the estimate for all N UTXOs, and the
\* first is below the second.
C9_RaiseState ==
    /\ sel_pc = "raised" =>
          /\ \A j \in 1..Len(utxos) : ~CoversFor(SumSet(FirstOfOrder(j)), j)
          /\ sel_err.available = SumSet(DOMAIN utxos)
          /\ ~CoversFor(sel_err.available, Len(utxos))
          /\ CoversFor(sel_err.required, Len(utxos))
          /\ ~CoversFor(sel_err.required - 1, Len(utxos))
          /\ sel_err.available < sel_err.required
    /\ SelReturned =>
          \E j \in 1..Len(utxos) : CoversFor(SumSet(FirstOfOrder(j)), j)

\* C9: the above in every state, and no step of select_utxos changes the
\* caller's list.
C9_InsufficientFunds == []C9_RaiseState /\ [][utxos' = utxos]_vars

\* the error raised for a list of three UTXOs
C9_Witness ==
    /\ sel_pc = "raised"
    /\ Len(utxos) = 3
    /\ utxos[1] < utxos[2]

\* C10 as claimed: when the inputs cover target + fee_with_change, the tuple
\* returned conserves value: target + fee + change = total input.
C10_ValueConserved ==
    (opt # None /\ CoversFor(opt.total, opt.n)) =>
        target_amount + opt.fee + opt.change = opt.total

(***************************************************************************)
(* Scripts.  A scriptPubKey is [family, data]: the script template and the *)
(* length of the hash / key / witness program it carries.                  *)
(***************************************************************************)
\* script_types.py 6-26, wallet_utils.py 293-305: the bytes each builder emits
SpkLen(spk) ==
    CASE spk.family = "p2pkh"  -> 3 + spk.data + 2
      [] spk.family = "p2sh"   -> 2 + spk.data + 1
      [] spk.family = "p2wpkh" -> 2 + spk.data
      [] spk.family = "p2tr"   -> 2 + spk.data
      [] spk.family = "p2pk"   -> 1 + spk.data + 1
      [] spk.family = "p2wsh"  -> 2 + spk.data
      [] spk.family = "nonstandard" -> spk.data

\* script_types.py 182-196: 00 14 <20>, 00 20 <32> or 51 20 <32>
is_witness_script(spk) ==
    \/ spk.family = "p2wpkh" /\ SpkLen(spk) = 22
    \/ spk.family = "p2wsh" /\ SpkLen(spk) = 34
    \/ spk.family = "p2tr" /\ SpkLen(spk) = 34

\* script_types.py 198-222; "unrecognized" stands for the ValueError
get_script_type_from_spk(spk) ==
    IF spk.family = "p2pkh" /\ SpkLen(spk) = 25 THEN "p2pkh"
    ELSE IF spk.family = "p2sh" /\ SpkLen(spk) = 23 THEN "p2sh"
    ELSE IF spk.family = "p2wpkh" /\ SpkLen(spk) = 22 THEN "p2wpkh"
    ELSE IF spk.family = "p2tr" /\ SpkLen(spk) = 34 THEN "p2tr"
    ELSE IF spk.family = "p2pk" /\ SpkLen(spk) >= 35 THEN "p2pk"
    ELSE "unrecognized"

\* a builder that always pays to a P2PKH script, whatever the address: the
\* mutation of get_scriptpubkey_for_address
get_scriptpubkey_legacy_only(address, data) ==
    [family |-> "p2pkh", data |-> data]

\* wallet_utils.py 307-325.  An address is [form, ver, data]: a public key
\* in hex, a Bech32(m) string of witness version ver, or a Base58Check
\* string whose version byte is a P2PKH or a P2SH one; data is the length
\* of what decode_address returns for it.
get_scriptpubkey_for_address(address, data) ==
    IF address.form = "pubkey_hex" THEN [family |-> "p2pk", data |-> data]
    ELSE IF address.form = "bech32" /\ address.data = 32
         THEN [family |-> "p2tr", data |-> data]
    ELSE IF address.form = "bech32" THEN [family |-> "p2wpkh", data |-> data]
    ELSE IF address.form = "base58" /\ address.ver = "p2sh"
         THEN [family |-> "p2sh", data |-> data]
    ELSE [family |-> "p2pkh", data |-> data]

(***************************************************************************)
(* Wallets as load_wallet builds them (wallet_utils.py 115-181):           *)
(* public_key is the length of the stored key, hash160 the length of       *)
(* decode_address(address).  The multisig wallet is 2-of-3 over compressed *)
(* keys: redeem_script is the length of OP_2 <3 keys> OP_3 OP_CHECKMULTISIG *)
(* and keys the number of participants whose private key is in the file.   *)
(***************************************************************************)
Wallets ==
    { [script_type |-> "p2pkh", public_key |-> 33, hash160 |-> 20,
       address |-> [form |-> "base58", ver |-> "p2pkh", data |-> 20]],
      [script_type |-> "p2wpkh", public_key |-> 33, hash160 |-> 20,
       address |-> [form |-> "bech32", ver |-> 0, data |-> 20]],
      [script_type |-> "p2tr", public_key |-> 32, hash160 |-> 32,
       address |-> [form |-> "bech32", ver |-> 1, data |-> 32]],
      [script_type |-> "p2pk", public_key |-> 33, hash160 |-> 33,
       address |-> [form |-> "pubkey_hex", ver |-> 0, data |-> 33]],
      [script_type |-> "p2sh-multisig", public_key |-> 33, hash160 |-> 20,
       address |-> [form |-> "base58", ver |-> "p2sh", data |-> 20],
       m |-> 2, n |-> 3, redeem_script |-> 105, keys |-> 3] }

\* Wallet.is_p2sh (wallet_utils.py 95-98)
is_p2sh(w) == w.script_type \in {"p2sh", "p2sh-multisig"}

(***************************************************************************)
(* Sizes (transaction_builder.py 23-129, crypto_utils.py 9-17).  A         *)
(* transaction is [inputs, outputs, witnesses]; an input is the length of  *)
(* its scriptSig, a witness stack the sequence of its items' lengths.      *)
(***************************************************************************)
\* len(vi(n)).  Counts and lengths stay far below 2^32 here, so the 9-byte
\* form of line 17 is never the one taken.
ViLen(n) ==
    IF n < 253 THEN 1
    ELSE IF n <= 65535 THEN 3
    ELSE 5

\* len(TransactionInput.serialize())
InputLen(script_sig) == 32 + 4 + ViLen(script_sig) + script_sig + 4

\* len(TransactionOutput.serialize())
OutputLen(out) == 8 + ViLen(SpkLen(out.spk)) + SpkLen(out.spk)

\* one witness stack of the witness section
StackLen(stack) ==
    ViLen(Len(stack)) + SumSeq([i \in 1..Len(stack) |-> ViLen(stack[i]) + stack[i]])

\* a test that asks every stack to hold something: the mutation of
\* has_witness_data
has_witness_data_all(t) ==
    /\ t.witnesses # <<>>
    /\ \A i \in 1..Len(t.witnesses) : Len(t.witnesses[i]) > 0

\* Transaction.has_witness_data (65-67)
has_witness_data(t) == \E i \in 1..Len(t.witnesses) : Len(t.witnesses[i]) > 0

\* len(serialize_without_witness())
StrippedLen(t) ==
    4 + ViLen(Len(t.inputs))
      + SumSeq([i \in 1..Len(t.inputs) |-> InputLen(t.inputs[i])])
      + ViLen(Len(t.outputs))
      + SumSeq([i \in 1..Len(t.outputs) |-> OutputLen(t.outputs[i])])
      + 4

\* len(serialize_with_witness())
TotalLen(t) ==
    IF ~has_witness_data(t) THEN StrippedLen(t)
    ELSE StrippedLen(t) + 2
           + SumSeq([i \in 1..Len(t.witnesses) |-> StackLen(t.witnesses[i])])

\* calculate_sizes()[0]
VSize(t) ==
    LET weight == StrippedLen(t) * 4 + (TotalLen(t) - StrippedLen(t))
    IN  (weight + 3) \div 4

(***************************************************************************)
(* Signing.  der_low_s (crypto_utils.py 37-56) returns 6 + len(r) + len(s) *)
(* bytes: s is at most n/2 and so takes at most 32 bytes, r takes 32 or,   *)
(* with its high bit set, 33.  Which one depends on the digest, that is on *)
(* every byte of the transaction signed; the model leaves it open, and     *)
(* draws one length for the ECDSA signatures of a pass.                    *)
(***************************************************************************)
DerLens == {70, 71}

\* sig_p2sh_multisig.push_data (script_types.py 118-124), up to 255 bytes
PushLen(n) == IF n <= 75 THEN 1 + n ELSE 2 + n

\* sig_p2sh_multisig (script_types.py 81-137) returns a scriptSig: there is
\* a redeem script (transaction_builder.py 192), m of its keys can sign
\* (line 114) and it fits a push (line 124)
MultisigSignable(w) ==
    /\ w.redeem_script > 0
    /\ w.keys >= w.m
    /\ w.redeem_script <= 255

\* sign_input_legacy (184-242) -> sig_p2sh_multisig / sig_p2pkh / sig_p2pk /
\* the P2PKH fallback: the length of the scriptSig, der the length of the
\* DER signature
LegacyScriptSig(spk, w, der) ==
    IF get_script_type_from_spk(spk) = "p2sh" /\ is_p2sh(w)
    THEN 1 + w.m * PushLen(der + 1) + PushLen(w.redeem_script)
    ELSE IF get_script_type_from_spk(spk) = "p2pk"
    THEN ViLen(der + 1) + (der + 1)
    ELSE ViLen(der + 1) + (der + 1) + ViLen(w.public_key) + w.public_key

\* lines 432-450: the signer the input is routed to returns, rather than
\* raise on a script that get_script_type_from_spk does not know (lines 436
\* and 188) or on a multisig it cannot sign
CanSign(spk, w) ==
    /\ get_script_type_from_spk(spk) # "unrecognized"
    /\ (~is_witness_script(spk)
          /\ get_script_type_from_spk(spk) = "p2sh" /\ is_p2sh(w))
       => MultisigSignable(w)

\* sign_input_taproot (298-389, sighash_type 0) / sign_input_witness (244-296)
WitnessStack(spk, w, der) ==
    IF spk.family = "p2tr" THEN <<64>> ELSE <<der + 1, w.public_key>>

(***************************************************************************)
(* What a signature commits to.  t is the transaction as it stands when    *)
(* input i is signed (the inputs before i carry their scriptSig already),  *)
(* prev the list of (amount, prev_spk) of build_transaction.               *)
(***************************************************************************)
\* a preimage that copies the scriptSig the other inputs carry at the time:
\* the mutation of LegacyDigest
LegacyDigestSigned(t, i, prev, w) ==
    [kind |-> "legacy",
     slots |-> [j \in 1..Len(t.inputs) |->
                  IF j = i THEN [script |-> "prev_spk",
                                 len |-> SpkLen(prev[i].spk)]
                  ELSE [script |-> "script_sig", len |-> t.inputs[j]]],
     outputs |-> t.outputs]

\* sign_input_legacy, lines 188-226: the preimage hashed into z
LegacyDigest(t, i, prev, w) ==
    [kind |-> "legacy",
     slots |-> [j \in 1..Len(t.inputs) |->
                  IF j # i THEN [script |-> "empty", len |-> 0]
                  ELSE IF get_script_type_from_spk(prev[i].spk) = "p2sh"
                          /\ is_p2sh(w)
                  THEN [script |-> "redeem_script", len |-> w.redeem_script]
                  ELSE [script |-> "prev_spk", len |-> SpkLen(prev[i].spk)]],
     outputs |-> t.outputs]

\* sign_input_witness, lines 247-291: the BIP143 preimage
WitnessDigest(t, i, prev, w) ==
    [kind |-> "bip143",
     prevouts |-> [j \in 1..Len(t.inputs) |-> j],
     sequences |-> [j \in 1..Len(t.inputs) |-> j],
     outpoint |-> i,
     amount |-> prev[i].amount,
     outputs |-> t.outputs]

\* sign_input_taproot, lines 304-376 with sighash_type 0: the BIP341
\* message; amounts and scriptpubkeys are what sha_amounts and
\* sha_scriptpubkeys are taken over
TaprootDigest(t, i, prev, w) ==
    [kind |-> "bip341",
     prevouts |-> [j \in 1..Len(t.inputs) |-> j],
     amounts |-> [j \in 1..Len(t.inputs) |-> prev[i].amount],
     scriptpubkeys |-> [j \in 1..Len(t.inputs) |-> prev[i].spk],
     sequences |-> [j \in 1..Len(t.inputs) |-> j],
     outputs |-> t.outputs,
     input_index |-> i]

\* lines 432-450: the signer input i is routed to
DigestOf(t, i, prev, w) ==
    IF ~is_witness_script(prev[i].spk) THEN LegacyDigest(t, i, prev, w)
    ELSE IF get_script_type_from_spk(prev[i].spk) = "p2tr"
    THEN TaprootDigest(t, i, prev, w)
    ELSE WitnessDigest(t, i, prev, w)

\* the DER lengths matter only where an ECDSA signature is made
UsesDer(spk) == spk.family # "p2tr"

(***************************************************************************)
(* build_transaction (transaction_builder.py 391-462)                      *)
(***************************************************************************)
FEE_STUB == 200
MAX_PASSES == 10

b_total_input == SumSeq([i \in 1..Len(b_utxos) |-> b_utxos[i].amount])
b_total_output == SumSeq([i \in 1..Len(b_outputs) |-> b_outputs[i].value])

\* line 426
HasChange(change) == change >= DUST_LIMIT

\* lines 415-450: the transaction of one pass, signed; der is the length of
\* the DER signatures made in it
SignedTx(change, der) ==
    LET outs == IF HasChange(change)
                THEN Append(b_outputs,
                        [value |-> change,
                         spk |-> get_scriptpubkey_for_address(wallet.address,
                                                              wallet.hash160)])
                ELSE b_outputs
        ins == [i \in 1..Len(b_utxos) |->
                   IF is_witness_script(b_utxos[i].spk) THEN 0
                   ELSE LegacyScriptSig(b_utxos[i].spk, wallet, der)]
        wits == [i \in 1..Len(b_utxos) |->
                   IF is_witness_script(b_utxos[i].spk)
                   THEN WitnessStack(b_utxos[i].spk, wallet, der)
                   ELSE <<>>]
        \* the transaction when input i is signed: line 415 made it anew,
        \* and the inputs before i are signed
        during(i) ==
            [inputs |-> [j \in 1..Len(b_utxos) |->
                            IF j < i THEN ins[j] ELSE 0],
             witnesses |-> [j \in 1..Len(b_utxos) |->
                            IF j < i THEN wits[j] ELSE <<>>],
             outputs |-> outs]
    IN  [inputs |-> ins,
         witnesses |-> wits,
         outputs |-> outs,
         digests |-> [i \in 1..Len(b_utxos) |->
                         DigestOf(during(i), i, b_utxos, wallet)]]

\* a fee taken by rounding down: the mutation of FeeFor
FeeForFloor(vsize) == (vsize * fee_rate[1]) \div fee_rate[2]

\* line 454: math.ceil(vsize * fee_rate)
FeeFor(vsize) == CeilMul(vsize, fee_rate)

\* fetches made from the last UTXO to the first: the mutation of
\* PrevoutFetches
PrevoutFetchesReversed(n) ==
    [i \in 1..n |-> [method |-> "blockchain.transaction.get",
                     arg |-> n + 1 - i]]

\* get_prevout_info (172-182) for the first n UTXOs: one
\* blockchain.transaction.get each, arg the position of the UTXO
PrevoutFetches(n) ==
    [i \in 1..n |-> [method |-> "blockchain.transaction.get", arg |-> i]]

\* lines 395-405: the totals, the prevout information, the fee stub.  The
\* oracle answers the first k fetches; a fetch not answered raises.
BuildBegin ==
    /\ b_pc = "call"
    /\ \E k \in 0..Len(b_utxos) :
          IF k = Len(b_utxos)
          THEN /\ rpcs' = rpcs \o PrevoutFetches(k)
               /\ fee' = FEE_STUB
               /\ passes' = 0
               /\ b_pc' = "loop"
          ELSE /\ rpcs' = rpcs \o PrevoutFetches(k + 1)
               /\ b_pc' = "rpc_failed"
               /\ UNCHANGED <<fee, passes>>
    /\ UNCHANGED <<fee_rate, selVars, extVars, b_utxos, b_outputs, wallet,
                   pass_fee, new_fee, change_amount, has_change, tx,
                   sig_memo, ret>>

\* the DER length a pass may see: the one signed before for the same fee
\* (the same fee gives the same transaction, and RFC 6979 the same
\* signatures), otherwise any
DersOfPass ==
    IF fee \in DOMAIN sig_memo THEN {sig_memo[fee]}
    ELSE IF \E i \in 1..Len(b_utxos) : UsesDer(b_utxos[i].spk) THEN DerLens
    ELSE {70}

\* lines 407-462: one pass of the loop and, when it is the last, the return
BuildPass ==
    /\ b_pc = "loop"
    /\ LET change == b_total_input - b_total_output - fee
       IN  IF change < 0
           THEN /\ b_pc' = "failed"
                /\ change_amount' = change
                /\ pass_fee' = fee
                /\ UNCHANGED <<fee, passes, new_fee, has_change, tx,
                               sig_memo, ret>>
           ELSE IF \E i \in 1..Len(b_utxos) : ~CanSign(b_utxos[i].spk, wallet)
           THEN /\ b_pc' = "sign_failed"
                /\ change_amount' = change
                /\ has_change' = HasChange(change)
                /\ pass_fee' = fee
                /\ UNCHANGED <<fee, passes, new_fee, tx, sig_memo, ret>>
           ELSE \E der \in DersOfPass :
                LET t == SignedTx(change, der)
                    nf == FeeFor(VSize(t))
                    last == nf = fee \/ passes + 1 = MAX_PASSES
                    out_fee == IF nf = fee THEN fee ELSE nf
                IN  /\ change_amount' = change
                    /\ has_change' = HasChange(change)
                    /\ tx' = t
                    /\ pass_fee' = fee
                    /\ new_fee' = nf
                    /\ sig_memo' = (fee :> der) @@ sig_memo
                    /\ passes' = passes + 1
                    /\ fee' = out_fee
                    /\ b_pc' = IF last THEN "done" ELSE "loop"
                    /\ ret' = IF last
                              THEN [tx |-> t, fee |-> out_fee,
                                    change |-> IF HasChange(change)
                                               THEN change ELSE 0]
                              ELSE ret
    /\ UNCHANGED <<fee_rate, selVars, rpcs, extVars, b_utxos, b_outputs,
                   wallet>>

\* the selector's variables while only the builder runs
SelIdle ==
    /\ utxos = <<>>
    /\ target_amount = 0
    /\ input_weight = 0
    /\ sorted_utxos = <<>>
    /\ selected = <<>>
    /\ total_input = 0
    /\ sel_pc = "idle"
    /\ sel_err = None
    /\ opt = None

MaxInputs == 2

\* the UTXOs a list to spend is made of: amount and previous scriptPubKey
BldInputs ==
    { [amount |-> 200,  spk |-> [family |-> "p2wpkh", data |-> 20]],
      [amount |-> 800,  spk |-> [family |-> "p2pkh",  data |-> 20]],
      [amount |-> 6000, spk |-> [family |-> "p2pkh",  data |-> 20]],
      [amount |-> 800,  spk |-> [family |-> "p2tr",   data |-> 32]],
      [amount |-> 6000, spk |-> [family |-> "p2tr",   data |-> 32]],
      [amount |-> 200,  spk |-> [family |-> "p2pk",   data |-> 33]],
      [amount |-> 800,  spk |-> [family |-> "p2sh",   data |-> 20]],
      [amount |-> 800,  spk |-> [family |-> "p2wsh",  data |-> 32]],
      [amount |-> 800,  spk |-> [family |-> "nonstandard", data |-> 40]],
      \* <40> <40 bytes> ac: the template of P2PK around 40 bytes of data
      [amount |-> 800,  spk |-> [family |-> "p2pk",   data |-> 40]] }
\* the single given output: value and destination script
BldOutputs ==
    { [value |-> 50,   spk |-> [family |-> "p2pkh", data |-> 20]],
      [value |-> 1000, spk |-> [family |-> "p2pkh", data |-> 20]] }
\* fee rates 1.0 and 2.5 sat/vB
BldRates == {<<1, 1>>, <<5, 2>>}

BldInit ==
    /\ SelIdle
    /\ fee_rate \in BldRates
    /\ b_utxos \in (SeqsUpTo(BldInputs, MaxInputs) \ {<<>>})
    /\ b_outputs \in {<<o>> : o \in BldOutputs}
    /\ wallet \in Wallets
    /\ fee = 0
    /\ passes = 0
    /\ pass_fee = 0
    /\ new_fee = 0
    /\ change_amount = 0
    /\ has_change = FALSE
    /\ tx = None
    /\ sig_memo = <<>>
    /\ b_pc = "call"
    /\ ret = None
    /\ rpcs = <<>>
    /\ TxIdle
    /\ CliIdle
    /\ MainIdle
    /\ FnIdle

BldNext == BuildBegin \/ BuildPass

BldSpec == BldInit /\ [][BldNext]_vars

(***************************************************************************)
(* Properties of build_transaction                                         *)
(***************************************************************************)
Returned == b_pc = "done"

OutputValues(t) == SumSeq([i \in 1..Len(t.outputs) |-> t.outputs[i].value])

\* the returned transaction carries one output more than was given
ChangePresent == Len(ret.tx.outputs) = Len(b_outputs) + 1

\* the script that locks the wallet's own funds, by wallet type
OwnSpk(w) ==
    CASE w.script_type = "p2pkh"  -> [family |-> "p2pkh", data |-> 20]
      [] w.script_type = "p2wpkh" -> [family |-> "p2wpkh", data |-> 20]
      [] w.script_type = "p2tr"   -> [family |-> "p2tr", data |-> 32]
      [] w.script_type = "p2pk"   -> [family |-> "p2pk", data |-> w.public_key]
      [] w.script_type = "p2sh-multisig" -> [family |-> "p2sh", data |-> 20]

\* C1 as claimed: for every returned (tx, fee, change) the selected amounts
\* sum to the output values serialized in tx plus the returned fee, a
\* suppressed dust change being part of that fee.
C1_ValueConserved ==
    Returned => b_total_input = OutputValues(ret.tx) + ret.fee

\* C2: the returned fee is ceil(vsize(tx) * fee_rate) for the vsize of the
\* returned, signed tx (exactly, hence to within one satoshi), on the break
\* exit and on the exit after the 10th pass alike.
C2_FeeMatchesVsize ==
    Returned =>
        LET v == VSize(ret.tx)
        IN  /\ ret.fee * fee_rate[2] >= v * fee_rate[1]
            /\ (ret.fee - 1) * fee_rate[2] < v * fee_rate[1]

\* the loop used up its ten passes and the last one still changed the fee
C2_Witness == Returned /\ passes = MAX_PASSES /\ new_fee # pass_fee

\* C3: the change output is present iff inputs - outputs - (fee used on the
\* last pass) >= 546; present, it is the last output, holds that difference,
\* equals the returned change and pays the wallet's own script; absent, the
\* returned change is 0 and the outputs are the given ones.
C3_ChangeOutput ==
    Returned =>
        LET d == b_total_input - b_total_output - pass_fee
            n == Len(b_outputs)
        IN  /\ SubSeq(ret.tx.outputs, 1, n) = b_outputs
            /\ ChangePresent <=> d >= 546
            /\ ChangePresent =>
                  /\ ret.tx.outputs[n + 1].value = d
                  /\ ret.tx.outputs[n + 1].spk = OwnSpk(wallet)
                  /\ ret.change = d
            /\ ~ChangePresent => (ret.change = 0 /\ Len(ret.tx.outputs) = n)

\* a Taproot wallet got its change back
C3_Witness ==
    /\ Returned
    /\ ChangePresent
    /\ wallet.script_type = "p2tr"
    /\ ret.change >= 546

\* C4 as claimed: whenever build_transaction returns, the loop ended because
\* a pass computed new_fee == fee.
C4_Converges == Returned => new_fee = pass_fee

\* C5 as claimed: one P2PKH input, destination and change: the loop stops
\* after at most 3 passes with |fee - vsize * rate| <= 1.
C5_ThreePasses ==
    (/\ Returned
     /\ Len(b_utxos) = 1
     /\ b_utxos[1].spk.family = "p2pkh"
     /\ Len(ret.tx.outputs) = 2)
    => /\ passes <= 3
       /\ (ret.fee - 1) * fee_rate[2] <= VSize(ret.tx) * fee_rate[1]
       /\ VSize(ret.tx) * fee_rate[1] <= (ret.fee + 1) * fee_rate[2]

\* the inputs pay the outputs and the fee, at the requested rate, of the
\* transaction without change, even with the longest signatures
CanPay ==
    (b_total_input - b_total_output) * fee_rate[2] >=
        VSize(SignedTx(0, 71)) * fee_rate[1]

\* C6 as claimed: a pass that finds inputs - outputs - fee negative makes
\* the build fail without a transaction, and the build fails so only when
\* the inputs cannot pay the outputs plus the transaction's fee.
C6_InsufficientFunds ==
    /\ (b_pc \in {"loop", "done"} /\ passes >= 1) => change_amount >= 0
    /\ b_pc = "failed" => (change_amount < 0 /\ ret = None)
    /\ b_pc = "failed" => ~CanPay

\* the family of a scriptPubKey: the five shapes the engine spends, a key
\* of a P2PK being a compressed (33) or an uncompressed (65) public key
FamilyOf(spk) ==
    IF spk.family = "p2pkh" /\ spk.data = 20 THEN "p2pkh"
    ELSE IF spk.family = "p2sh" /\ spk.data = 20 THEN "p2sh"
    ELSE IF spk.family = "p2wpkh" /\ spk.data = 20 THEN "p2wpkh"
    ELSE IF spk.family = "p2tr" /\ spk.data = 32 THEN "p2tr"
    ELSE IF spk.family = "p2pk" /\ spk.data \in {33, 65} THEN "p2pk"
    ELSE "other"

\* C14 as claimed: in every returned transaction each input carries its
\* unlocking data in one place, decided by the family of its own previous
\* scriptPubKey: P2WPKH -> witness [signature, pubkey] and empty scriptSig;
\* P2TR -> witness [signature] and empty scriptSig; P2PK/P2PKH/P2SH ->
\* non-empty scriptSig and empty witness stack.  A previous scriptPubKey of
\* any other shape (P2WSH included) makes the build fail instead of being
\* signed: no pass completes and nothing is returned.
C14_UnlockingData ==
    /\ Returned =>
          \A i \in 1..Len(b_utxos) :
              LET fam == FamilyOf(b_utxos[i].spk)
                  script_sig == ret.tx.inputs[i]
                  stack == ret.tx.witnesses[i]
              IN  /\ fam = "p2wpkh" =>
                        /\ Len(stack) = 2
                        /\ stack[1] \in {d + 1 : d \in DerLens}
                        /\ stack[2] = wallet.public_key
                        /\ script_sig = 0
                  /\ fam = "p2tr" => (stack = <<64>> /\ script_sig = 0)
                  /\ fam \in {"p2pk", "p2pkh", "p2sh"} =>
                        (script_sig > 0 /\ stack = <<>>)
    /\ (\E i \in 1..Len(b_utxos) : FamilyOf(b_utxos[i].spk) = "other")
          => (passes = 0 /\ tx = None /\ ret = None /\ b_pc # "done")

(***************************************************************************)
(* The Transaction object (transaction_builder.py 46-129), driven by the   *)
(* calls build_transaction makes on it (lines 415-450): add_input,         *)
(* add_output, and the two assignments that sign an input.                 *)
(***************************************************************************)
MaxTxInputs == 2
MaxTxOutputs == 1

\* the previous scriptPubKeys of the inputs added
TxPrevouts ==
    { [family |-> "p2wpkh", data |-> 20], [family |-> "p2pkh", data |-> 20],
      [family |-> "p2tr", data |-> 32], [family |-> "p2pk", data |-> 33],
      [family |-> "p2sh", data |-> 20] }

\* a piece of a serialization: the field, its length in bytes, and for a
\* count the number it encodes
Field(f, len, n) == [f |-> f, len |-> len, n |-> n]

\* the pieces both forms share: vi(n_in) inputs vi(n_out) outputs
SerializeBody(t) ==
    <<Field("n_in", ViLen(Len(t.inputs)), Len(t.inputs))>>
    \o [i \in 1..Len(t.inputs) |-> Field("input", InputLen(t.inputs[i]), 0)]
    \o <<Field("n_out", ViLen(Len(t.outputs)), Len(t.outputs))>>
    \o [i \in 1..Len(t.outputs) |-> Field("output", OutputLen(t.outputs[i]), 0)]

\* Transaction.serialize_without_witness (69-82)
serialize_without_witness(t) ==
    <<Field("version", 4, 0)>> \o SerializeBody(t) \o <<Field("locktime", 4, 0)>>

\* Transaction.serialize_with_witness (84-110)
serialize_with_witness(t) ==
    IF ~has_witness_data(t) THEN serialize_without_witness(t)
    ELSE <<Field("version", 4, 0), Field("marker_flag", 2, 0)>>
         \o SerializeBody(t)
         \o [i \in 1..Len(t.witnesses) |->
                Field("witness", StackLen(t.witnesses[i]), Len(t.witnesses[i]))]
         \o <<Field("locktime", 4, 0)>>

\* Transaction.serialize (112-117)
serialize(t) ==
    IF has_witness_data(t) THEN serialize_with_witness(t)
    ELSE serialize_without_witness(t)

\* len() of a serialization
ByteLen(s) == SumSeq([i \in 1..Len(s) |-> s[i].len])

\* an add_input that forgets the witness stack: the mutation of add_input
add_input_no_stack(t) == [t EXCEPT !.inputs = Append(@, 0)]

\* Transaction.add_input (56-59): script_sig = b"" and an empty stack
add_input(t) ==
    [t EXCEPT !.inputs = Append(@, 0), !.witnesses = Append(@, <<>>)]

\* Transaction.add_output (61-63)
add_output(t, out) == [t EXCEPT !.outputs = Append(@, out)]

\* Transaction() (49-54)
TxInit ==
    /\ t_tx = [inputs |-> <<>>, outputs |-> <<>>, witnesses |-> <<>>]
    /\ t_prev = <<>>
    /\ t_owner = <<>>
    /\ fee_rate = <<1, 1>>
    /\ rpcs = <<>>
    /\ SelIdle
    /\ BldIdle
    /\ CliIdle
    /\ MainIdle
    /\ FnIdle

\* line 419: tx.add_input for the next UTXO, whose prevout is spk
TxAddInput ==
    /\ t_tx # None
    /\ Len(t_tx.inputs) < MaxTxInputs
    /\ \E spk \in TxPrevouts :
          LET id == Len(t_tx.inputs) + 1
              t == add_input(t_tx)
          IN  /\ t_tx' = t
              /\ t_prev' = Append(t_prev, [id |-> id, spk |-> spk])
              /\ t_owner' = IF Len(t.witnesses) > Len(t_tx.witnesses)
                            THEN Append(t_owner, id) ELSE t_owner
    /\ UNCHANGED <<fee_rate, selVars, bldVars, rpcs, cliVars, mainVars, fnVars>>

\* lines 423 and 429: tx.add_output
TxAddOutput ==
    /\ t_tx # None
    /\ Len(t_tx.outputs) < MaxTxOutputs
    /\ \E out \in BldOutputs : t_tx' = add_output(t_tx, out)
    /\ UNCHANGED <<fee_rate, selVars, bldVars, rpcs, cliVars, mainVars, fnVars,
                   t_prev, t_owner>>

\* lines 432-450: input i is signed for its prevout, by some wallet
TxSignInput ==
    /\ t_tx # None
    /\ \E i \in 1..Len(t_tx.inputs), w \in Wallets, der \in DerLens :
          LET spk == t_prev[i].spk
          IN  /\ CanSign(spk, w)
              /\ IF is_witness_script(spk)
                 THEN /\ i <= Len(t_tx.witnesses)
                      /\ t_tx' = [t_tx EXCEPT
                                    !.witnesses[i] = WitnessStack(spk, w, der)]
                      /\ t_owner' = [t_owner EXCEPT ![i] = t_prev[i].id]
                 ELSE /\ t_tx' = [t_tx EXCEPT
                                    !.inputs[i] = LegacyScriptSig(spk, w, der)]
                      /\ UNCHANGED t_owner
    /\ UNCHANGED <<fee_rate, selVars, bldVars, rpcs, cliVars, mainVars, fnVars, t_prev>>

TxNext == TxAddInput \/ TxAddOutput \/ TxSignInput

TxSpec == TxInit /\ [][TxNext]_vars

(***************************************************************************)
(* Properties of the Transaction object                                    *)
(***************************************************************************)
\* the pieces of a serialization that are witness stacks
WitnessFields(s) == SelectSeq(s, LAMBDA x : x.f = "witness")

AnyStackNonEmpty(t) == \E i \in 1..Len(t.witnesses) : t.witnesses[i] # <<>>

\* C12: serialize() and serialize_with_witness() emit the same bytes: the
\* SegWit form (version, marker+flag 00 01, and after the outputs one stack
\* per input, an empty stack being the single byte 00) iff some input's
\* witness stack is non-empty, and otherwise exactly the stripped form; so a
\* transaction of legacy inputs has total size = stripped size = vsize.
C12_EmissionRule ==
    t_tx # None =>
        LET w == serialize_with_witness(t_tx)
            st == serialize_without_witness(t_tx)
            n == Len(t_tx.inputs)
            m == Len(t_tx.outputs)
        IN  /\ serialize(t_tx) = w
            /\ ByteLen(w) = TotalLen(t_tx)
            /\ ByteLen(st) = StrippedLen(t_tx)
            /\ AnyStackNonEmpty(t_tx) =>
                  /\ w[1].f = "version"
                  /\ w[2] = Field("marker_flag", 2, 0)
                  /\ Len(w) = 2 + (2 + n + m) + n + 1
                  /\ \A i \in 1..n :
                        LET x == w[4 + n + m + i]
                        IN  /\ x.f = "witness"
                            /\ x.n = Len(t_tx.witnesses[i])
                            /\ t_tx.witnesses[i] = <<>> => x.len = 1
                  /\ Len(WitnessFields(w)) = n
                  /\ w[Len(w)].f = "locktime"
            /\ ~AnyStackNonEmpty(t_tx) =>
                  /\ w = st
                  /\ \A i \in 1..Len(w) : w[i].f \notin {"marker_flag", "witness"}
                  /\ TotalLen(t_tx) = StrippedLen(t_tx)
                  /\ VSize(t_tx) = StrippedLen(t_tx)

\* a SegWit form with an empty stack: a signed witness input next to a
\* signed legacy input
C12_Witness ==
    /\ t_tx # None
    /\ Len(t_tx.inputs) = 2
    /\ t_tx.witnesses[1] # <<>>
    /\ t_tx.witnesses[2] = <<>>
    /\ t_tx.inputs[2] > 0
    /\ Len(t_tx.outputs) = 1

\* C13: after any sequence of add_input, add_output and signing steps the
\* witness-stack list has as many entries as the input list, and entry i
\* belongs to input i: it is the stack made for input i's outpoint, empty
\* unless input i spends a witness script, whose scriptSig stays empty.
C13_WitnessPerInput ==
    t_tx # None =>
        /\ Len(t_tx.witnesses) = Len(t_tx.inputs)
        /\ Len(t_owner) = Len(t_tx.inputs)
        /\ \A i \in 1..Len(t_tx.inputs) :
              /\ t_owner[i] = t_prev[i].id
              /\ t_tx.witnesses[i] # <<>> =>
                    (is_witness_script(t_prev[i].spk) /\ t_tx.inputs[i] = 0)
              /\ t_tx.inputs[i] > 0 => t_tx.witnesses[i] = <<>>

\* two inputs, the second one signed with a witness, then an output added
C13_Witness ==
    /\ t_tx # None
    /\ Len(t_tx.inputs) = 2
    /\ t_tx.witnesses[1] = <<>>
    /\ Len(t_tx.witnesses[2]) = 2
    /\ Len(t_tx.outputs) = 1

(***************************************************************************)
(* ElectrumClient (electrum_client.py).  request() is followed attempt by  *)
(* attempt, and an attempt step by step: _connect, sendall, then the recv  *)
(* loop with the decoding, the finally clause and the return or raise.     *)
(* The oracle decides how each step ends.                                  *)
(***************************************************************************)
MAX_RETRIES == 3
MaxCalls == 2

Methods == {"blockchain.scripthash.listunspent", "blockchain.transaction.get",
            "blockchain.transaction.broadcast"}

\* what may come back as the response line: not JSON at all, or a JSON
\* object with its "error" (empty when absent or null) and its "result"
Responses ==
    { [json |-> FALSE, error |-> "", result |-> ""],
      [json |-> TRUE, error |-> "", result |-> "r1"],
      [json |-> TRUE, error |-> "e1", result |-> ""],
      [json |-> TRUE, error |-> "e1", result |-> "r2"] }

NoResponse == [json |-> FALSE, error |-> "", result |-> "-"]

\* an id that does not move: the mutation of NextRequestId
KeepRequestId(id) == id

\* line 35: self._request_id += 1
NextRequestId(id) == id + 1

\* a loop that gives up one attempt later: the mutation of LastAttempt
LastAttemptLate(attempt) == attempt = MAX_RETRIES

\* line 52: attempt == MAX_RETRIES - 1
LastAttempt(attempt) == attempt = MAX_RETRIES - 1

\* a socket left as it is: the mutation of CloseSocket
KeepSocket(open) == open

\* line 84: sock.close(); for a failed handshake, the close that
\* SSLContext.wrap_socket does itself before it raises
CloseSocket(open) == open - 1

\* ElectrumClient(...) (lines 11-18)
CliInit ==
    /\ request_id = 0
    /\ use_tls \in BOOLEAN
    /\ c_pc = "idle"
    /\ c_call = 0
    /\ c_attempt = 0
    /\ c_payload = None
    /\ c_open = 0
    /\ c_sent = <<>>
    /\ c_hist = <<>>
    /\ c_out = None
    /\ fee_rate = <<1, 1>>
    /\ rpcs = <<>>
    /\ SelIdle
    /\ BldIdle
    /\ TxIdle
    /\ MainIdle
    /\ FnIdle

\* request, lines 35-45: the id and the payload of the call
CliRequest ==
    /\ c_pc \in {"idle", "returned", "raised"}
    /\ c_call < MaxCalls
    /\ \E method \in Methods :
          /\ request_id' = NextRequestId(request_id)
          /\ c_payload' = [id |-> request_id', method |-> method]
    /\ c_call' = c_call + 1
    /\ c_attempt' = 0
    /\ c_hist' = <<>>
    /\ c_out' = None
    /\ c_pc' = "connect"
    /\ UNCHANGED <<fee_rate, selVars, bldVars, rpcs, txVars, mainVars, fnVars,
                   use_tls, c_open, c_sent>>

\* request, lines 51-54: an attempt raised; the last one raises to the
\* caller, any other is followed by the next
AttemptFailed(end, resp) ==
    /\ c_hist' = Append(c_hist, [end |-> end, resp |-> resp])
    /\ IF LastAttempt(c_attempt)
       THEN /\ c_pc' = "raised"
            /\ c_out' = [kind |-> "raise", value |-> ""]
            /\ UNCHANGED c_attempt
       ELSE /\ c_pc' = "connect"
            /\ c_attempt' = c_attempt + 1
            /\ UNCHANGED c_out

\* _connect (20-31), called at line 58 outside the try: create_connection
\* fails; or the TLS handshake fails on the socket just opened; or the
\* socket is returned
CliConnect ==
    /\ c_pc = "connect"
    /\ \/ /\ AttemptFailed("connect", NoResponse)
          /\ UNCHANGED c_open
       \/ /\ use_tls
          /\ c_open' = CloseSocket(c_open + 1)
          /\ AttemptFailed("tls", NoResponse)
       \/ /\ c_open' = c_open + 1
          /\ c_pc' = "send"
          /\ UNCHANGED <<c_attempt, c_hist, c_out>>
    /\ UNCHANGED <<fee_rate, selVars, bldVars, rpcs, txVars, mainVars, fnVars,
                   request_id, use_tls, c_call, c_payload, c_sent>>

\* what the oracle may do with a request that arrives: only a broadcast
\* leaves something behind
Acceptances(method) ==
    IF method = "blockchain.transaction.broadcast" THEN BOOLEAN ELSE {FALSE}

\* line 62: sendall; when it raises, the finally clause closes the socket.
\* A broadcast that arrives is accepted by the oracle or refused.
CliSend ==
    /\ c_pc = "send"
    /\ \/ /\ \E acc \in Acceptances(c_payload.method) :
                c_sent' = Append(c_sent, [call |-> c_call, id |-> c_payload.id,
                                          method |-> c_payload.method,
                                          accepted |-> acc])
          /\ c_pc' = "recv"
          /\ UNCHANGED <<c_attempt, c_hist, c_out, c_open>>
       \/ /\ c_open' = CloseSocket(c_open)
          /\ AttemptFailed("send", NoResponse)
          /\ UNCHANGED c_sent
    /\ UNCHANGED <<fee_rate, selVars, bldVars, rpcs, txVars, mainVars, fnVars,
                   request_id, use_tls, c_call, c_payload>>

\* lines 65-84: recv raises; or nothing arrives; or a line arrives that is
\* not JSON, or carries an error, or is returned; the socket is closed on
\* every way out.  The JSON answer to a broadcast carries an error exactly
\* when the oracle refused the transaction.
CliRecv ==
    /\ c_pc = "recv"
    /\ c_open' = CloseSocket(c_open)
    /\ \/ AttemptFailed("recv", NoResponse)
       \/ AttemptFailed("empty", NoResponse)
       \/ \E resp \in Responses :
             /\ (resp.json
                   /\ c_payload.method = "blockchain.transaction.broadcast")
                  => (resp.error = "" <=> c_sent[Len(c_sent)].accepted)
             /\ IF ~resp.json THEN AttemptFailed("malformed", resp)
                ELSE IF resp.error # "" THEN AttemptFailed("error", resp)
                ELSE /\ c_hist' = Append(c_hist, [end |-> "ok", resp |-> resp])
                     /\ c_out' = [kind |-> "return", value |-> resp.result]
                     /\ c_pc' = "returned"
                     /\ UNCHANGED c_attempt
    /\ UNCHANGED <<fee_rate, selVars, bldVars, rpcs, txVars, mainVars, fnVars,
                   request_id, use_tls, c_call, c_payload, c_sent>>

CliNext == CliRequest \/ CliConnect \/ CliSend \/ CliRecv

CliSpec == CliInit /\ [][CliNext]_vars

(***************************************************************************)
(* Properties of ElectrumClient                                            *)
(***************************************************************************)
\* how the attempts of the current call ended, in order
Ends == [i \in 1..Len(c_hist) |-> c_hist[i].end]

\* what the current call put on the wire
SentOfCall == SelectSeq(c_sent, LAMBDA x : x.call = c_call)

\* C15: request makes at most MAX_RETRIES attempts per call, none after the
\* first that succeeds, whose result it returns, and raises only after
\* MAX_RETRIES failed attempts.
C15_BoundedRetries ==
    /\ Len(c_hist) <= MAX_RETRIES
    /\ Len(SentOfCall) <= MAX_RETRIES
    /\ \A i \in 1..(Len(c_hist) - 1) : c_hist[i].end # "ok"
    /\ c_pc = "returned" =>
          /\ c_hist # <<>>
          /\ c_hist[Len(c_hist)].end = "ok"
          /\ c_out = [kind |-> "return",
                      value |-> c_hist[Len(c_hist)].resp.result]
    /\ c_pc = "raised" =>
          /\ Len(c_hist) = MAX_RETRIES
          /\ \A i \in 1..Len(c_hist) : c_hist[i].end # "ok"
          /\ c_out.kind = "raise"
    /\ c_pc \in {"connect", "send", "recv"} =>
          /\ Len(c_hist) = c_attempt
          /\ c_attempt < MAX_RETRIES
          /\ \A i \in 1..Len(c_hist) : c_hist[i].end # "ok"
          /\ c_out = None

\* a broadcast whose first two attempts fail at recv and whose third succeeds
C15_Witness ==
    /\ c_pc = "returned"
    /\ c_payload.method = "blockchain.transaction.broadcast"
    /\ Ends = <<"recv", "recv", "ok">>
    /\ c_out.kind = "return"

\* C16: at most one connection is open at any time, one per attempt from
\* its connect to the end of the attempt, and none between attempts or
\* once request has returned or raised, whichever step failed.
C16_ConnectionsClosed ==
    /\ c_open \in {0, 1}
    /\ c_pc \in {"idle", "connect", "returned", "raised"} => c_open = 0
    /\ c_pc \in {"send", "recv"} => c_open = 1

\* a call whose attempts failed in the handshake, in the send and on an
\* error object
C16_Witness ==
    /\ c_pc = "raised"
    /\ use_tls
    /\ Ends = <<"tls", "send", "error">>

\* C17: the ids sent by one client increase strictly from one request()
\* call to the next, starting at 1 and whether or not earlier calls failed,
\* and the attempts of one call carry the same id and the same payload.
C17_RequestIds ==
    /\ request_id = c_call
    /\ c_payload # None => c_payload.id = c_call
    /\ \A i \in 1..Len(c_sent) : c_sent[i].id = c_sent[i].call
    /\ \A i, j \in 1..Len(c_sent) :
          /\ (i < j /\ c_sent[i].call < c_sent[j].call)
                => c_sent[i].id < c_sent[j].id
          /\ c_sent[i].call = c_sent[j].call
                => (c_sent[i].id = c_sent[j].id
                    /\ c_sent[i].method = c_sent[j].method)
          /\ i < j => c_sent[i].call <= c_sent[j].call

\* a call that failed after three sends, and the next call's first send
C17_Witness ==
    /\ Len(c_sent) = 4
    /\ c_sent[1].call = 1
    /\ c_sent[3].call = 1
    /\ c_sent[4].call = 2

\* C18 as claimed: when the oracle answered an attempt of the call with a
\* response that carries a non-empty error object, request reports an error
\* to its caller, and never returns the content of such a response.
C18_ErrorReported ==
    /\ (\E i \in 1..Len(c_hist) : c_hist[i].end = "error")
          => c_pc # "returned"
    /\ c_pc = "returned" => c_hist[Len(c_hist)].resp.error = ""

\* C29 as claimed: a broadcast_transaction call that raised left the oracle
\* without the transaction: no attempt of it was received and accepted;
\* and one call puts the raw transaction on the wire at most once.
C29_BroadcastAtMostOnce ==
    c_payload # None /\ c_payload.method = "blockchain.transaction.broadcast"
       => /\ c_pc = "raised"
                => \A i \in 1..Len(SentOfCall) : ~SentOfCall[i].accepted
          /\ Len(SentOfCall) <= 1

(***************************************************************************)
(* The send pipeline (main.py 10-178) with collect_utxos_for_wallet        *)
(* (utxo_manager.py 48-92).  rpcs is the sequence of requests made of the  *)
(* client; the oracle decides which of them are answered.                  *)
(***************************************************************************)
Networks == {"mainnet", "testnet", "regtest"}

\* len(address): a key in hex; hrp "1" version-char, the program in 5-bit
\* characters and 6 of checksum; or the 25 bytes of a Base58Check address
AddressChars(address, net) ==
    IF address.form = "pubkey_hex" THEN 2 * address.data
    ELSE IF address.form = "bech32"
    THEN (IF net = "regtest" THEN 4 ELSE 2) + 1 + 1
         + ((address.data * 8 + 4) \div 5) + 6
    ELSE 34

\* collect_utxos_for_wallet, lines 76-87: the scripts asked about
CollectScripts(w, net) ==
    IF AddressChars(w.address, net) > 50
    THEN <<[family |-> "p2pk", data |-> w.hash160]>>
    ELSE <<[family |-> "p2pkh", data |-> w.hash160],
           [family |-> "p2wpkh", data |-> w.hash160]>>

\* what listunspent may answer for one scripthash: the amounts
OracleUnspent == {<<>>, <<1000>>, <<600, 5000>>}

\* the lists of the answered queries, one after the other (lines 79-87)
RECURSIVE Merged(_, _, _)
Merged(scripts, answers, k) ==
    IF k = 0 THEN <<>>
    ELSE Merged(scripts, answers, k - 1)
         \o [i \in 1..Len(answers[k]) |->
                [amount |-> answers[k][i], spk |-> scripts[k]]]

\* line 90: utxos.sort(key=amount, reverse=True)
SortedByAmount(list) ==
    LET order == SortedDesc([i \in 1..Len(list) |-> list[i].amount])
    IN  [i \in 1..Len(list) |-> list[order[i]]]

\* the addresses typed in as destination that decode_address accepts
DestAddresses ==
    { [form |-> "base58", ver |-> "p2pkh", data |-> 20],
      [form |-> "base58", ver |-> "p2sh", data |-> 20],
      [form |-> "bech32", ver |-> 0, data |-> 20],
      [form |-> "bech32", ver |-> 0, data |-> 32],
      [form |-> "bech32", ver |-> 1, data |-> 32],
      [form |-> "bech32", ver |-> 2, data |-> 20],
      [form |-> "pubkey_hex", ver |-> 0, data |-> 33] }

\* the empty line, and a string decode_address returns None for
DestRejected ==
    { [form |-> "empty", ver |-> 0, data |-> 0],
      [form |-> "invalid", ver |-> 0, data |-> 0] }

\* the amounts and fee rates typed in
AmountInputs == {0, 500, 850, 7000}
RateInputs == {<<0, 1>>, <<1, 1>>}

\* the messages typed in, by their length in bytes; 0 is no message
MessageInputs == {0, 5, 75, 76, 81}

\* lines 73-85: bytes([0x6a, len(message_bytes)]) + message_bytes, the
\* message cut to 80 bytes: prefix holds the bytes before the payload,
\* payload the number of message bytes that follow
op_return_script(msg) ==
    LET n == IF msg > 80 THEN 80 ELSE msg
    IN  IF msg = 0 THEN None
        ELSE [family |-> "nonstandard", data |-> 2 + n,
              prefix |-> <<106, n>>, payload |-> n]

\* lines 91-98
InputWeightFor(w) ==
    IF is_p2sh(w) THEN INPUT_WEIGHT_P2SH
    ELSE IF w.script_type = "p2wpkh" THEN INPUT_WEIGHT_P2WPKH
    ELSE IF w.script_type = "p2pk" THEN INPUT_WEIGHT_P2PK
    ELSE INPUT_WEIGHT_P2PKH

\* an answer taken for yes whatever it is: the mutation of Confirmed
ConfirmedAlways(answer) == TRUE

\* line 152: confirm.startswith('s')
Confirmed(answer) == answer = "s"

bldLocals == <<fee, passes, pass_fee, new_fee, change_amount, has_change, tx,
               sig_memo, ret>>

\* main is started; DEFAULT_FEE_RATE is 1.0
MainInit ==
    /\ m_pc = "start"
    /\ m_net = "none"
    /\ m_utxos = <<>>
    /\ m_queried = <<>>
    /\ m_dest = None
    /\ m_dest_spk = None
    /\ m_message = 0
    /\ m_op_return = None
    /\ m_confirm = ""
    /\ m_exit = ""
    /\ fee_rate = <<1, 1>>
    /\ rpcs = <<>>
    /\ SelIdle
    /\ BldIdle
    /\ TxIdle
    /\ CliIdle
    /\ FnIdle

\* lines 15-22: a wallet file is chosen and loaded, or main exits
MainLoadWallet ==
    /\ m_pc = "start"
    /\ \/ \E w \in Wallets, net \in Networks :
             /\ wallet' = w
             /\ m_net' = net
             /\ m_pc' = "collect"
             /\ UNCHANGED m_exit
       \/ /\ m_pc' = "exit"
          /\ m_exit' = "wallet_error"
          /\ UNCHANGED <<wallet, m_net>>
    /\ UNCHANGED <<fee_rate, selVars, rpcs, txVars, cliVars, fnVars, b_utxos,
                   b_outputs, bldLocals, b_pc, m_utxos, m_queried, m_dest,
                   m_dest_spk, m_message, m_op_return, m_confirm>>

\* lines 31-34: collect_utxos_for_wallet.  The oracle answers the first k
\* queries; one not answered raises out of main.  An empty list ends main.
MainCollect ==
    /\ m_pc = "collect"
    /\ LET scripts == CollectScripts(wallet, m_net)
           n == Len(scripts)
       IN  \E k \in 0..n :
             LET asked == IF k = n THEN n ELSE k + 1
             IN  /\ m_queried' = SubSeq(scripts, 1, asked)
                 /\ rpcs' = rpcs \o
                       [i \in 1..asked |->
                          [method |-> "blockchain.scripthash.listunspent",
                           arg |-> scripts[i]]]
                 /\ IF k < n
                    THEN /\ m_pc' = "exit"
                         /\ m_exit' = "collect_error"
                         /\ UNCHANGED m_utxos
                    ELSE \E answers \in [1..n -> OracleUnspent] :
                           LET list == SortedByAmount(Merged(scripts, answers, n))
                           IN  /\ m_utxos' = list
                               /\ IF list = <<>>
                                  THEN m_pc' = "exit" /\ m_exit' = "no_utxos"
                                  ELSE m_pc' = "inputs" /\ UNCHANGED m_exit
    /\ UNCHANGED <<fee_rate, selVars, bldVars, txVars, cliVars, fnVars, m_net, m_dest,
                   m_dest_spk, m_message, m_op_return, m_confirm>>

\* lines 46-100: the destination, the amount and the fee rate are read and
\* checked, and select_utxos is called
MainInputs ==
    /\ m_pc = "inputs"
    /\ \/ \E d \in DestRejected :
             /\ m_dest' = d
             /\ m_pc' = "exit"
             /\ m_exit' = "invalid_address"
             /\ UNCHANGED <<m_dest_spk, m_message, m_op_return, fee_rate, selVars>>
       \/ \E d \in DestAddresses, a \in AmountInputs, r \in RateInputs,
             msg \in MessageInputs :
             /\ m_dest' = d
             /\ m_dest_spk' = get_scriptpubkey_for_address(d, d.data)
             /\ IF a <= 0
                THEN /\ m_pc' = "exit"
                     /\ m_exit' = "invalid_amount"
                     /\ UNCHANGED <<m_message, m_op_return, fee_rate, selVars>>
                ELSE IF r[1] <= 0
                THEN /\ m_pc' = "exit"
                     /\ m_exit' = "invalid_fee_rate"
                     /\ UNCHANGED <<m_message, m_op_return, fee_rate, selVars>>
                ELSE /\ m_pc' = "select"
                     /\ fee_rate' = r
                     /\ m_message' = msg
                     /\ m_op_return' = op_return_script(msg)
                     /\ utxos' = [i \in 1..Len(m_utxos) |-> m_utxos[i].amount]
                     /\ target_amount' = a
                     /\ input_weight' = InputWeightFor(wallet)
                     /\ sel_pc' = "call"
                     /\ UNCHANGED <<m_exit, sorted_utxos, selected,
                                    total_input, sel_err, opt>>
    /\ UNCHANGED <<bldVars, rpcs, txVars, cliVars, fnVars, m_net, m_utxos, m_queried,
                   m_confirm>>

\* select_utxos raised: line 167
MainSelectFailed ==
    /\ m_pc = "select"
    /\ sel_pc = "raised"
    /\ m_pc' = "exit"
    /\ m_exit' = "select_error"
    /\ UNCHANGED <<fee_rate, selVars, bldVars, rpcs, txVars, cliVars, fnVars, m_net,
                   m_utxos, m_queried, m_dest, m_dest_spk, m_message, m_op_return, m_confirm>>

\* lines 102-126: build_transaction is called on the selected UTXOs
MainCallBuild ==
    /\ m_pc = "select"
    /\ sel_pc = "returned"
    /\ b_utxos' = [i \in 1..Len(selected) |-> m_utxos[selected[i]]]
    /\ b_outputs' = <<[value |-> target_amount, spk |-> m_dest_spk]>>
                     \o (IF m_op_return = None THEN <<>>
                         ELSE <<[value |-> 0, spk |-> m_op_return]>>)
    /\ b_pc' = "call"
    /\ m_pc' = "build"
    /\ UNCHANGED <<fee_rate, selVars, rpcs, txVars, cliVars, fnVars, wallet,
                   bldLocals, m_net, m_utxos, m_queried, m_dest, m_dest_spk,
                   m_message, m_op_return, m_confirm, m_exit>>

\* build_transaction raised: line 167
MainBuildFailed ==
    /\ m_pc = "build"
    /\ b_pc \in {"failed", "sign_failed", "rpc_failed"}
    /\ m_pc' = "exit"
    /\ m_exit' = "build_error"
    /\ UNCHANGED <<fee_rate, selVars, bldVars, rpcs, txVars, cliVars, fnVars, m_net,
                   m_utxos, m_queried, m_dest, m_dest_spk, m_message, m_op_return, m_confirm>>

\* lines 128-162: the summary, the question, and on yes the broadcast,
\* answered or not; "^C" is the KeyboardInterrupt of line 164
MainConfirm ==
    /\ m_pc = "build"
    /\ b_pc = "done"
    /\ m_pc' = "exit"
    /\ \E answer \in {"s", "n", "^C"} :
          /\ m_confirm' = answer
          /\ IF answer = "^C"
             THEN m_exit' = "cancelled" /\ UNCHANGED rpcs
             ELSE IF Confirmed(answer)
             THEN /\ rpcs' = Append(rpcs,
                        [method |-> "blockchain.transaction.broadcast",
                         arg |-> ret.tx])
                  /\ m_exit' \in {"sent", "broadcast_error"}
             ELSE m_exit' = "not_sent" /\ UNCHANGED rpcs
    /\ UNCHANGED <<fee_rate, selVars, bldVars, txVars, cliVars, fnVars, m_net,
                   m_utxos, m_queried, m_dest, m_dest_spk, m_message, m_op_return>>

MainNext ==
    \/ MainLoadWallet
    \/ MainCollect
    \/ MainInputs
    \/ SelectBegin
    \/ SelectIter
    \/ SelectRaise
    \/ MainSelectFailed
    \/ MainCallBuild
    \/ BuildBegin
    \/ BuildPass
    \/ MainBuildFailed
    \/ MainConfirm

MainSpec == MainInit /\ [][MainNext]_vars

\* the run is one of main
MainStarted == m_pc # "none"

\* collect_utxos_for_wallet returned to main
Collected ==
    \/ m_pc \in {"inputs", "select", "build"}
    \/ m_pc = "exit" /\ m_exit \notin {"wallet_error", "collect_error"}

\* C11 as claimed: once the collection has returned, the scripts asked about
\* are the P2PKH and the P2WPKH script over the key hash for a p2pkh or
\* p2wpkh wallet, and for any other wallet the one script that locks the
\* wallet's own funds, on every network.
C11_WalletScripthashes ==
    Collected =>
        IF wallet.script_type \in {"p2pkh", "p2wpkh"}
        THEN m_queried = <<[family |-> "p2pkh", data |-> wallet.hash160],
                           [family |-> "p2wpkh", data |-> wallet.hash160]>>
        ELSE m_queried = <<OwnSpk(wallet)>>

BroadcastAt(i) == rpcs[i].method = "blockchain.transaction.broadcast"

\* C19: a broadcast request is the last request made, and it is made only
\* when build_transaction has returned and the answer to the question was
\* yes; no run that ended on an error or was cancelled made one.
C19_BroadcastLast ==
    \A i \in 1..Len(rpcs) :
        BroadcastAt(i) =>
            /\ i = Len(rpcs)
            /\ Returned
            /\ m_confirm = "s"
            /\ m_exit \in {"sent", "broadcast_error"}

\* a run that asked for the UTXOs, fetched the previous transactions and
\* then broadcast, with success
C19_Witness ==
    /\ m_exit = "sent"
    /\ Len(rpcs) >= 3
    /\ BroadcastAt(Len(rpcs))
    /\ \A i \in 1..(Len(rpcs) - 1) : ~BroadcastAt(i)

\* the witness version a script starts with
WitnessVersion(spk) == IF spk.family = "p2tr" THEN 1 ELSE 0

\* C20 as claimed: the destination script is of the address's own family:
\* a P2SH script for a Base58 P2SH address, a P2PKH script for a Base58
\* P2PKH address, and for a Bech32 address a witness program whose version
\* is the address's, over the address's program.
C20_AddressFamily ==
    m_pc \in {"select", "build"} =>
        IF m_dest.form = "base58"
        THEN m_dest_spk = [family |-> m_dest.ver, data |-> m_dest.data]
        ELSE IF m_dest.form = "bech32"
        THEN /\ is_witness_script(m_dest_spk)
             /\ WitnessVersion(m_dest_spk) = m_dest.ver
             /\ m_dest_spk.data = m_dest.data
        ELSE m_dest_spk.family = "p2pk"

\* the bytes between 0x6a and the payload are a push of n bytes: one length
\* byte up to 75, or OP_PUSHDATA1 and one length byte
WellFormedPush(bytes, n) ==
    \/ bytes = <<n>> /\ n <= 75
    \/ bytes = <<76, n>> /\ n <= 255

Min(a, b) == IF a < b THEN a ELSE b

\* C25 as claimed: whatever the length L of the message, the OP_RETURN
\* script is 0x6a, a well-formed push and the first min(L, 80) bytes of
\* the message; in the built transaction that output has value 0 and every
\* other output a positive value; an empty message adds no output.
C25_OpReturnOutput ==
    /\ m_pc \in {"select", "build"} =>
          IF m_message = 0 THEN m_op_return = None
          ELSE /\ Head(m_op_return.prefix) = 106
               /\ m_op_return.payload = Min(m_message, 80)
               /\ WellFormedPush(Tail(m_op_return.prefix),
                                 m_op_return.payload)
    /\ (MainStarted /\ Returned) =>
          \A i \in 1..Len(ret.tx.outputs) :
             IF m_op_return # None /\ i = 2
             THEN /\ ret.tx.outputs[i].value = 0
                  /\ ret.tx.outputs[i].spk = m_op_return
             ELSE ret.tx.outputs[i].value > 0

\* C28 as claimed: when select_utxos has returned a selection for the
\* target, the rate and the input weight of the wallet's type, the build
\* over that selection with the one output of value target does not fail
\* for insufficient funds.
C28_SelectorBuilderAgree ==
    (MainStarted /\ sel_pc = "returned" /\ m_op_return = None)
        => b_pc # "failed"

(***************************************************************************)
(* get_script_type_from_spk (script_types.py 198-222) on one script.  A    *)
(* script is a template and the length of the data in it: the five        *)
(* templates of the builders of lines 6-26, 00 20 <data> and data alone.   *)
(***************************************************************************)
MaxData == 80

Templates == {"p2pkh", "p2sh", "p2wpkh", "p2wsh", "p2tr", "p2pk",
              "nonstandard"}

ScriptInputs == {[family |-> f, data |-> d] : f \in Templates, d \in 1..MaxData}

\* no multisig wallet is being made
MsIdle == g_pc = "none" /\ g_desc = None /\ g_wallet = None /\ g_sig = None

ClsInit ==
    /\ k_spk \in ScriptInputs
    /\ k_out = ""
    /\ MsIdle
    /\ fee_rate = <<1, 1>>
    /\ rpcs = <<>>
    /\ SelIdle
    /\ BldIdle
    /\ TxIdle
    /\ CliIdle
    /\ MainIdle

Classify ==
    /\ k_spk # None
    /\ k_out = ""
    /\ k_out' = get_script_type_from_spk(k_spk)
    /\ UNCHANGED <<fee_rate, selVars, bldVars, rpcs, txVars, cliVars,
                   mainVars, k_spk, g_pc, g_desc, g_wallet, g_sig>>

ClsNext == Classify

ClsSpec == ClsInit /\ [][ClsNext]_vars

\* the five byte patterns of the specification, by template and data length
Listed(spk) ==
    \/ spk.family \in {"p2pkh", "p2sh", "p2wpkh"} /\ spk.data = 20
    \/ spk.family = "p2tr" /\ spk.data = 32
    \/ spk.family = "p2pk" /\ spk.data \in {33, 65}

\* C21 as claimed: get_script_type_from_spk returns a name exactly for the
\* scripts of the five patterns, the name of the script's pattern, P2PK
\* only for a push of 33 or 65 bytes, and fails on every other script; a
\* script of one pattern has the length of no script of another.
C21_FivePatterns ==
    /\ k_out # "" =>
          IF Listed(k_spk) THEN k_out = k_spk.family
          ELSE k_out = "unrecognized"
    /\ \A b \in ScriptInputs :
          (Listed(k_spk) /\ Listed(b) /\ k_spk.family # b.family)
              => SpkLen(k_spk) # SpkLen(b)

(***************************************************************************)
(* A wallet file from generate_p2sh_multisig (indirizzi/p2sh.py 42-115) or *)
(* written by hand, through load_wallet (wallet_utils.py 115-181) to the   *)
(* signature of a P2SH input (sign_input_legacy 188-232, sig_p2sh_multisig *)
(* 46-137).  A public key is its rank in the byte order of the keys; a     *)
(* redeem script is [m, pubkeys, n, keylen]; a participant is [key, priv], *)
(* priv telling whether private_key_hex is there.                          *)
(***************************************************************************)
MaxN == 17

\* redeem_script_hex absent: bytes.fromhex("")
NoRedeem == [m |-> 0, pubkeys |-> <<>>, n |-> 0, keylen |-> 0]

\* len(redeem): OP_m, the pushes of the keys, OP_n OP_CHECKMULTISIG
RedeemLen(r) ==
    IF r = NoRedeem THEN 0 ELSE 1 + Len(r.pubkeys) * (1 + r.keylen) + 2

KeyLen(compressed) == IF compressed THEN 33 ELSE 65

\* the n keys in the order they were generated: by rising or by falling
\* byte order
Generated(n, order) ==
    [i \in 1..n |-> [key |-> IF order = "rising" THEN i ELSE n + 1 - i,
                     priv |-> TRUE]]

\* pubkeys_bytes.sort() (p2sh.py 98-99)
SortedKeys(n) == [i \in 1..n |-> i]

\* generate_p2sh_multisig (p2sh.py 71-115) past the check of line 82
generate_p2sh_multisig(m, n, compressed, sort_pubkeys, order) ==
    [script_type |-> "p2sh-multisig",
     fields |-> {"script_type", "m", "n", "redeem_script_hex",
                 "participants", "address"},
     m |-> m,
     n |-> n,
     redeem |-> [m |-> m,
                 pubkeys |-> IF sort_pubkeys THEN SortedKeys(n)
                             ELSE [i \in 1..n |-> Generated(n, order)[i].key],
                 n |-> n,
                 keylen |-> KeyLen(compressed)],
     participants |-> Generated(n, order),
     origin |-> "generated"]

\* wallet files written by hand around a 2-of-3 wallet
EditedDescriptors ==
    { [script_type |-> "p2sh-multisig", fields |-> fs, m |-> m, n |-> n,
       redeem |-> r, participants |-> ps, origin |-> "edited"] :
        fs \in { {"script_type", "m", "n", "redeem_script_hex",
                  "participants", "address"},
                 {"script_type", "redeem_script_hex", "participants",
                  "address"},
                 {"script_type", "m", "n", "participants", "address"},
                 {"script_type", "m", "n", "redeem_script_hex", "address"},
                 {"script_type", "m", "n", "redeem_script_hex",
                  "participants"} },
        m \in {0, 2, 3, 5},
        n \in {2, 3, 17},
        r \in { [m |-> 2, pubkeys |-> <<1, 2, 3>>, n |-> 3, keylen |-> 33],
               [m |-> 2, pubkeys |-> <<4, 5, 6>>, n |-> 3, keylen |-> 33] },
        ps \in { <<[key |-> 1, priv |-> TRUE], [key |-> 2, priv |-> TRUE],
                  [key |-> 3, priv |-> TRUE]>>,
                <<[key |-> 3, priv |-> TRUE], [key |-> 1, priv |-> FALSE],
                  [key |-> 2, priv |-> TRUE]>>,
                <<[key |-> 3, priv |-> TRUE], [key |-> 2, priv |-> FALSE],
                  [key |-> 1, priv |-> FALSE]>>,
                <<[key |-> 2, priv |-> FALSE], [key |-> 1, priv |-> TRUE],
                  [key |-> 3, priv |-> TRUE]>>,
                <<[key |-> 2, priv |-> TRUE], [key |-> 1, priv |-> TRUE]>> } }

\* wallet files of the single-key types, with any of their fields left out
SingleKeyDescriptors ==
    { [script_type |-> t, fields |-> fs, m |-> 0, n |-> 0,
       redeem |-> NoRedeem, participants |-> <<>>, origin |-> "edited"] :
        t \in {"p2pkh", "p2wpkh", "p2pk", "p2tr"},
        fs \in SUBSET {"private_key_hex", "public_key_hex", "address",
                       "internal_pubkey_x_hex"} }

\* the fields load_wallet reads with wallet_data[...] for the type
RequiredFields(d) ==
    IF d.script_type = "p2sh-multisig" THEN {"address"}
    ELSE IF d.script_type = "p2tr"
    THEN {"private_key_hex", "internal_pubkey_x_hex", "address"}
    ELSE IF d.script_type = "p2pk" THEN {"private_key_hex", "public_key_hex"}
    ELSE {"private_key_hex", "public_key_hex", "address"}

\* load_wallet (wallet_utils.py 115-181) on a file that exists, with a
\* well-formed address
load_wallet(d) ==
    IF d.script_type = "p2sh-multisig"
    THEN LET participants == IF "participants" \in d.fields
                             THEN d.participants ELSE <<>>
         IN  IF participants = <<>> THEN [error |-> "ValueError"]
             ELSE IF ~participants[1].priv THEN [error |-> "KeyError"]
             ELSE IF ~(RequiredFields(d) \subseteq d.fields)
             THEN [error |-> "KeyError"]
             ELSE [error |-> "",
                   script_type |-> d.script_type,
                   redeem_script |-> IF "redeem_script_hex" \in d.fields
                                     THEN d.redeem ELSE NoRedeem,
                   participants |-> participants,
                   m |-> IF "m" \in d.fields THEN d.m ELSE 2,
                   n |-> IF "n" \in d.fields THEN d.n ELSE 3]
    ELSE IF ~(RequiredFields(d) \subseteq d.fields) THEN [error |-> "KeyError"]
    ELSE [error |-> "", script_type |-> d.script_type,
          redeem_script |-> NoRedeem, participants |-> <<>>,
          m |-> 0, n |-> 0]

\* Wallet.get_signing_keys (wallet_utils.py 100-112) of a P2SH wallet: the
\* keys of the participants that have one, in the order of the file
get_signing_keys(w) ==
    LET with_priv == SelectSeq(w.participants, LAMBDA x : x.priv)
    IN  [i \in 1..Len(with_priv) |-> with_priv[i].key]

\* lines 103-112: the keys that sign, from the pubkeys left to look at
RECURSIVE Signers(_, _, _)
Signers(pubkeys, keys, m) ==
    IF pubkeys = <<>> \/ m <= 0 THEN <<>>
    ELSE IF \E i \in 1..Len(keys) : keys[i] = Head(pubkeys)
    THEN <<Head(pubkeys)>> \o Signers(Tail(pubkeys), keys, m - 1)
    ELSE Signers(Tail(pubkeys), keys, m)

\* sig_p2sh_multisig (script_types.py 81-137) after
\* parse_multisig_redeem_script (46-79)
sig_p2sh_multisig(keys, redeem_script, m) ==
    IF RedeemLen(redeem_script) < 4 \/ redeem_script.m \notin 1..16
    THEN [kind |-> "error", error |-> "invalid_redeem_script", sigs |-> <<>>]
    ELSE LET sigs == Signers(redeem_script.pubkeys, keys, m)
         IN  IF Len(sigs) < m
             THEN [kind |-> "error", error |-> "not_enough_keys",
                   sigs |-> <<>>]
             ELSE IF RedeemLen(redeem_script) > 255
             THEN [kind |-> "error", error |-> "push_too_long",
                   sigs |-> <<>>]
             ELSE [kind |-> "script_sig", error |-> "", sigs |-> sigs]

MsInit ==
    /\ g_pc = "start"
    /\ g_desc = None
    /\ g_wallet = None
    /\ g_sig = None
    /\ k_spk = None
    /\ k_out = ""
    /\ fee_rate = <<1, 1>>
    /\ rpcs = <<>>
    /\ SelIdle
    /\ BldIdle
    /\ TxIdle
    /\ CliIdle
    /\ MainIdle

msRest == <<fee_rate, selVars, bldVars, rpcs, txVars, cliVars, mainVars,
            k_spk, k_out>>

\* generate_p2sh_multisig is called: line 82 rejects the parameters, or the
\* wallet file is written
MsGenerate ==
    /\ g_pc = "start"
    /\ \E m \in 0..MaxN, n \in 0..MaxN, compressed \in BOOLEAN,
          sort_pubkeys \in BOOLEAN, order \in {"rising", "falling"} :
          IF 1 <= m /\ m <= n /\ n <= 16
          THEN /\ g_desc' = generate_p2sh_multisig(m, n, compressed,
                                                   sort_pubkeys, order)
               /\ g_pc' = "descriptor"
          ELSE /\ g_desc' = [origin |-> "rejected", m |-> m, n |-> n]
               /\ g_pc' = "rejected"
    /\ UNCHANGED <<msRest, g_wallet, g_sig>>

\* a wallet file is written by hand
MsEdit ==
    /\ g_pc = "start"
    /\ g_desc' \in EditedDescriptors \cup SingleKeyDescriptors
    /\ g_pc' = "descriptor"
    /\ UNCHANGED <<msRest, g_wallet, g_sig>>

\* load_wallet on the file
MsLoad ==
    /\ g_pc = "descriptor"
    /\ g_wallet' = load_wallet(g_desc)
    /\ g_pc' = IF g_wallet'.error = "" THEN "loaded" ELSE "load_failed"
    /\ UNCHANGED <<msRest, g_desc, g_sig>>

\* sign_input_legacy on a P2SH input of the multisig wallet, lines 191-193
\* and 229-232
MsSign ==
    /\ g_pc = "loaded"
    /\ g_wallet.script_type = "p2sh-multisig"
    /\ g_sig' = IF g_wallet.redeem_script = NoRedeem
                THEN [kind |-> "error", error |-> "no_redeem_script",
                      sigs |-> <<>>]
                ELSE sig_p2sh_multisig(get_signing_keys(g_wallet),
                                       g_wallet.redeem_script, g_wallet.m)
    /\ g_pc' = "signed"
    /\ UNCHANGED <<msRest, g_desc, g_wallet>>

MsNext == MsGenerate \/ MsEdit \/ MsLoad \/ MsSign

MsSpec == MsInit /\ [][MsNext]_vars

(***************************************************************************)
(* Properties of the multisig wallet                                       *)
(***************************************************************************)
\* sig_p2sh_multisig was called, on a redeem script it could parse
SigCalled ==
    /\ g_pc = "signed"
    /\ g_sig.error \notin {"no_redeem_script", "invalid_redeem_script"}

\* the pubkeys of the redeem script that a supplied key matches, in the
\* order of the redeem script
Matching ==
    SelectSeq(g_wallet.redeem_script.pubkeys,
              LAMBDA k : \E i \in 1..Len(g_wallet.participants) :
                            /\ g_wallet.participants[i].priv
                            /\ g_wallet.participants[i].key = k)

\* C22 as claimed: sig_p2sh_multisig returns a scriptSig with exactly m
\* signatures, by the first m pubkeys of the redeem script that a supplied
\* key matches and in the order of the redeem script, or fails for lack of
\* keys when fewer than m match; it does nothing else.
C22_MultisigSignatures ==
    SigCalled =>
        IF Len(Matching) >= g_wallet.m
        THEN /\ g_sig.kind = "script_sig"
             /\ g_sig.sigs = SubSeq(Matching, 1, g_wallet.m)
        ELSE /\ g_sig.kind = "error"
             /\ g_sig.error = "not_enough_keys"

\* C23 as claimed: generate_p2sh_multisig rejects exactly the parameters
\* outside 1 <= m <= n <= 16, and an input of a wallet it generated is
\* signed with all the participants' keys without error.
C23_GeneratedWalletSigns ==
    /\ g_pc = "rejected" =>
          ~(1 <= g_desc.m /\ g_desc.m <= g_desc.n /\ g_desc.n <= 16)
    /\ (g_pc # "rejected" /\ g_desc # None /\ g_desc.origin = "generated") =>
          /\ 1 <= g_desc.m /\ g_desc.m <= g_desc.n /\ g_desc.n <= 16
          /\ g_pc # "load_failed"
          /\ g_pc = "signed" => g_sig.kind = "script_sig"

\* the set of the keys of a sequence of keys
KeySet(keys) == {keys[i] : i \in 1..Len(keys)}

\* the wallet file is one the specification calls valid
ValidDescriptor(d) ==
    IF d.script_type = "p2sh-multisig"
    THEN /\ {"m", "n", "redeem_script_hex", "participants", "address"}
               \subseteq d.fields
         /\ 1 <= d.m /\ d.m <= d.n /\ d.n <= 16
         /\ Len(d.participants) = d.n
         /\ KeySet(d.redeem.pubkeys)
               = {d.participants[i].key : i \in 1..Len(d.participants)}
         /\ Len(d.redeem.pubkeys) = d.n
    ELSE RequiredFields(d) \subseteq d.fields

\* C24 as claimed: load_wallet returns a Wallet only for a valid wallet
\* file; for p2sh-multisig one with m and n present and within
\* 1 <= m <= n <= 16, n participants, and a redeem script over the
\* participants' pubkeys; for every type one with the type's fields.
C24_DescriptorValidated ==
    g_pc \in {"loaded", "signed"} => ValidDescriptor(g_desc)

(***************************************************************************)
(* Properties of the signatures of build_transaction                       *)
(***************************************************************************)
\* C26 as claimed: the message signed for a P2TR input i of a returned
\* transaction of k inputs commits to all k prevouts and sequences, to the
\* k previous amounts and the k previous scriptPubKeys, each input's own
\* and in input order, to all the outputs and to the index i.
C26_TaprootCommitments ==
    Returned =>
        \A i \in 1..Len(b_utxos) :
            ret.tx.digests[i].kind = "bip341" =>
                /\ ret.tx.digests[i].prevouts = [j \in 1..Len(b_utxos) |-> j]
                /\ ret.tx.digests[i].sequences = [j \in 1..Len(b_utxos) |-> j]
                /\ ret.tx.digests[i].amounts =
                       [j \in 1..Len(b_utxos) |-> b_utxos[j].amount]
                /\ ret.tx.digests[i].scriptpubkeys =
                       [j \in 1..Len(b_utxos) |-> b_utxos[j].spk]
                /\ ret.tx.digests[i].outputs = ret.tx.outputs
                /\ ret.tx.digests[i].input_index = i

\* the outputs of the pass that made tx: the given ones and, when the
\* change of that pass is not dust, the change
OutputsOfPass ==
    IF has_change
    THEN Append(b_outputs,
            [value |-> change_amount,
             spk |-> get_scriptpubkey_for_address(wallet.address,
                                                  wallet.hash160)])
    ELSE b_outputs

\* the script the legacy digest of input i carries in the slot of input i
OwnSlot(i) ==
    IF b_utxos[i].spk.family = "p2sh" /\ is_p2sh(wallet)
    THEN [script |-> "redeem_script", len |-> wallet.redeem_script]
    ELSE [script |-> "prev_spk", len |-> SpkLen(b_utxos[i].spk)]

\* C27: the transaction of a pass is made anew and every signature in it,
\* and so in the transaction returned, is over the inputs and the outputs
\* of that same pass, change included; a legacy digest carries the previous
\* script or the redeem script for its own input and an empty scriptSig
\* for every other, signed already or not.
C27_SignedAsReturned ==
    /\ Returned => ret.tx = tx
    /\ (b_pc \in {"loop", "done"} /\ passes >= 1) =>
          /\ tx.outputs = OutputsOfPass
          /\ Len(tx.inputs) = Len(b_utxos)
          /\ \A i \in 1..Len(b_utxos) :
                /\ tx.digests[i].outputs = tx.outputs
                /\ tx.digests[i].kind = "legacy" =>
                      tx.digests[i].slots =
                          [j \in 1..Len(b_utxos) |->
                              IF j = i THEN OwnSlot(i)
                              ELSE [script |-> "empty", len |-> 0]]
                /\ tx.digests[i].kind # "legacy" =>
                      Len(tx.digests[i].prevouts) = Len(b_utxos)

\* two legacy inputs, one of them of the multisig wallet, returned with
\* change after more than one pass
C27_Witness ==
    /\ Returned
    /\ passes >= 2
    /\ Len(b_utxos) = 2
    /\ Len(ret.tx.outputs) = 2
    /\ ret.tx.digests[1].kind = "legacy"
    /\ ret.tx.digests[2].kind = "legacy"
    /\ ret.tx.digests[2].slots[2].script = "redeem_script"

(***************************************************************************)
(* Properties of the prevout fetches of build_transaction                  *)
(***************************************************************************)
\* the blockchain.transaction.get requests made so far, by UTXO position
Gets ==
    LET g == SelectSeq(rpcs,
                 LAMBDA x : x.method = "blockchain.transaction.get")
    IN  [i \in 1..Len(g) |-> g[i].arg]

\* once the loop is entered every UTXO was fetched once, in order; a build
\* ended by a fetch has signed nothing
FetchedBeforeLoop ==
    /\ b_pc \in {"loop", "done", "failed", "sign_failed"}
          => Gets = [i \in 1..Len(b_utxos) |-> i]
    /\ b_pc = "rpc_failed"
          => /\ tx = None
             /\ passes = 0
             /\ Len(Gets) <= Len(b_utxos)
             /\ Gets = [i \in 1..Len(Gets) |-> i]

\* C30: build_transaction fetches the previous transaction of each UTXO
\* exactly once, in UTXO order, before the first pass; no pass of the loop
\* makes a request, so the number of fetches is the number of UTXOs
\* whatever the number of passes, and a failed fetch ends the build before
\* anything is signed.
C30_FetchOncePerUtxo ==
    /\ []FetchedBeforeLoop
    /\ [][b_pc = "loop" => rpcs' = rpcs]_vars

\* a build of two UTXOs that returned after several passes
C30_Witness ==
    /\ Returned
    /\ passes >= 3
    /\ Len(b_utxos) = 2
    /\ Gets = <<1, 2>>

Init == SelInit \/ BldInit \/ TxInit \/ CliInit \/ MainInit \/ ClsInit
           \/ MsInit
Next == SelNext \/ BldNext \/ TxNext \/ CliNext \/ MainNext \/ ClsNext
           \/ MsNext
Spec == Init /\ [][Next]_vars

====
